---- MODULE Spec2Model ----
(***************************************************************************)
(* Model of Validation/verify_mongo_data.py: the unit normalizer, the      *)
(* numeric coercer, the schema normalizer (build_normalized_docs) and the  *)
(* upsert engine over the final collection.                                *)
(*                                                                         *)
(* Python text is modelled as a sequence of one-character strings, so that *)
(* strip, lower, split, replace, substring tests and float parsing are     *)
(* computed as the code computes them.  Python values are tagged records:  *)
(* None, Str(s), PyInt(n), Float(m, e) (the number m / 10^e), NaN, Inf.      *)
(* A call that raises yields Raise(exc).                                   *)
(***************************************************************************)
EXTENDS Integers, Sequences, FiniteSets, TLC

VARIABLES
    num_in, num_out,       \* to_number_safe: argument and outcome
    unit_variant, unit_raw, unit_out,  \* normalize_unit: table variant used, argument, outcome
    df_raw, out,           \* build_normalized_docs: raw batch and outcome
    store, last, repeat,   \* final collection, the last upsert call, same batch as the call before
    ncalls,                \* upsert calls made so far
    report                 \* validate_collection's report of the current run

numVars   == <<num_in, num_out>>
unitVars  == <<unit_variant, unit_raw, unit_out>>
normVars  == <<df_raw, out>>
storeVars == <<store, last, repeat, ncalls, report>>
vars      == <<num_in, num_out, unit_variant, unit_raw, unit_out, df_raw, out, store, last, repeat, ncalls, report>>

----------------------------------------------------------------------------
(* Bounds of the model *)

MaxLen == 3        \* longest enumerated cell text given to to_number_safe
MaxPad == 1        \* most blanks put on each side of a unit string

----------------------------------------------------------------------------
(* Python values *)

None        == [t |-> "None"]
Str(s)      == [t |-> "str", s |-> s]
PyInt(n)    == [t |-> "int", n |-> n]
NaN         == [t |-> "nan"]
Inf(neg)    == [t |-> "inf", neg |-> neg]
Raise(exc)  == [t |-> "raise", exc |-> exc]
Pending     == [t |-> "pending"]

RECURSIVE NormFloat(_, _)
NormFloat(m, e) ==
    IF e > 0 /\ m % 10 = 0 THEN NormFloat(m \div 10, e - 1) ELSE [t |-> "float", m |-> m, e |-> e]

\* the float m / 10^e, in lowest decimal form so that equal numbers are equal records
Float(m, e) == NormFloat(m, e)

IsNumber(v) == v.t \in {"int", "float", "nan", "inf"}

\* Python truthiness of a value: None, "" and 0 are false
Truthy(v) ==
    CASE v.t = "None"  -> FALSE
      [] v.t = "str"   -> v.s # <<>>
      [] v.t = "int"   -> v.n # 0
      [] v.t = "float" -> v.m # 0
      [] OTHER         -> TRUE

----------------------------------------------------------------------------
(* Python str operations *)

Whitespace == {" ", "\t"}
Digits     == <<"0", "1", "2", "3", "4", "5", "6", "7", "8", "9">>
UpperChars == <<"A", "B", "C", "D", "E", "F", "G", "H", "I", "J", "K", "L", "M",
                "N", "O", "P", "Q", "R", "S", "T", "U", "V", "W", "X", "Y", "Z">>
LowerChars == <<"a", "b", "c", "d", "e", "f", "g", "h", "i", "j", "k", "l", "m",
                "n", "o", "p", "q", "r", "s", "t", "u", "v", "w", "x", "y", "z">>

DigitOf == [c \in {Digits[i] : i \in DOMAIN Digits} |-> (CHOOSE i \in DOMAIN Digits : Digits[i] = c) - 1]
LowerOf == [c \in {UpperChars[i] : i \in DOMAIN UpperChars} |->
               LowerChars[CHOOSE i \in DOMAIN UpperChars : UpperChars[i] = c]]
UpperOf == [c \in {LowerChars[i] : i \in DOMAIN LowerChars} |->
               UpperChars[CHOOSE i \in DOMAIN LowerChars : LowerChars[i] = c]]

IsDigit(c)   == c \in DOMAIN DigitOf
DigitVal(c)  == DigitOf[c]
LowerChar(c) == IF c \in DOMAIN LowerOf THEN LowerOf[c] ELSE c
UpperChar(c) == IF c \in DOMAIN UpperOf THEN UpperOf[c] ELSE c

\* s.lower()
Lower(s) == [i \in DOMAIN s |-> LowerChar(s[i])]
Upper(s) == [i \in DOMAIN s |-> UpperChar(s[i])]

\* s.strip()
Strip(s) ==
    LET keep == {i \in DOMAIN s : s[i] \notin Whitespace}
    IN  IF keep = {} THEN <<>>
        ELSE SubSeq(s, CHOOSE i \in keep : \A j \in keep : i <= j,
                       CHOOSE i \in keep : \A j \in keep : j <= i)

\* sub in s
Contains(sub, s) ==
    \E i \in 0..(Len(s) - Len(sub)) : SubSeq(s, i + 1, i + Len(sub)) = sub

\* s.replace(",", "")
RemoveCommas(s) == SelectSeq(s, LAMBDA c : c # ",")

\* s.split(): the maximal runs of non-blank characters, in order
RECURSIVE Split(_)
Split(s) ==
    IF s = <<>> THEN <<>>
    ELSE IF s[1] \in Whitespace THEN Split(Tail(s))
    ELSE LET stops == {i \in DOMAIN s : s[i] \in Whitespace}
             end   == IF stops = {} THEN Len(s) + 1
                      ELSE CHOOSE i \in stops : \A j \in stops : i <= j
         IN  <<SubSeq(s, 1, end - 1)>> \o Split(SubSeq(s, end, Len(s)))

\* str(v)
PyStr(v) ==
    CASE v.t = "str"  -> v.s
      [] v.t = "None" -> <<"N", "o", "n", "e">>
      [] v.t = "nan"  -> <<"n", "a", "n">>
      [] OTHER        -> <<"?">>   \* a number's text: never read by this model

----------------------------------------------------------------------------
(* float(text), for text of signs, digits, a point and letters.  The forms *)
(* with an exponent or an underscore need the characters e, E or _ next to *)
(* a digit; no text of this model has them.                                *)

RECURSIVE DigitsVal(_)
DigitsVal(ds) ==
    IF ds = <<>> THEN 0 ELSE 10 * DigitsVal(SubSeq(ds, 1, Len(ds) - 1)) + DigitVal(ds[Len(ds)])

Unsigned(tok) == IF tok # <<>> /\ tok[1] \in {"+", "-"} THEN Tail(tok) ELSE tok
Negative(tok) == tok # <<>> /\ tok[1] = "-"

IsDecimal(body) ==
    /\ \A i \in DOMAIN body : IsDigit(body[i]) \/ body[i] = "."
    /\ Cardinality({i \in DOMAIN body : body[i] = "."}) <= 1
    /\ \E i \in DOMAIN body : IsDigit(body[i])

\* float(tok) succeeds
PyFloatOk(tok) ==
    \/ IsDecimal(Unsigned(tok))
    \/ Lower(Unsigned(tok)) \in {<<"i", "n", "f">>, <<"i", "n", "f", "i", "n", "i", "t", "y">>,
                                 <<"n", "a", "n">>}

\* float(tok), when it succeeds
PyFloat(tok) ==
    LET body == Unsigned(tok)
        sign == IF Negative(tok) THEN -1 ELSE 1
    IN  IF Lower(body) = <<"n", "a", "n">> THEN NaN
        ELSE IF ~IsDecimal(body) THEN Inf(Negative(tok))
        ELSE LET ds   == SelectSeq(body, IsDigit)
                 dots == {i \in DOMAIN body : body[i] = "."}
                 frac == IF dots = {} THEN 0 ELSE Len(body) - (CHOOSE i \in dots : TRUE)
             IN  Float(sign * DigitsVal(ds), frac)

\* float(n) of a number that is not NaN
FloatOfNumber(v) == IF v.t = "int" THEN Float(v.n, 0) ELSE v

\* last index of the run of digits of s that starts at j (j - 1 when there is none)
RunEnd(s, j) ==
    CHOOSE k \in (j - 1)..Len(s) :
        /\ \A p \in j..k : IsDigit(s[p])
        /\ k = Len(s) \/ ~IsDigit(s[k + 1])

\* where a match of [-+]?\d*\.\d+ that starts at i ends, 0 when there is none
Alt1End(s, i) ==
    LET j == IF s[i] \in {"+", "-"} THEN i + 1 ELSE i
        k == RunEnd(s, j)
    IN  IF k + 1 <= Len(s) /\ s[k + 1] = "." /\ RunEnd(s, k + 2) >= k + 2
        THEN RunEnd(s, k + 2) ELSE 0

\* where a match of \d+ that starts at i ends, 0 when there is none
Alt2End(s, i) == IF RunEnd(s, i) >= i THEN RunEnd(s, i) ELSE 0

MatchEnd(s, i) == IF Alt1End(s, i) > 0 THEN Alt1End(s, i) ELSE Alt2End(s, i)

\* re.search(r"[-+]?\d*\.\d+|\d+", s): the matched text, <<>> when nothing matches
RegexSearch(s) ==
    LET starts == {i \in DOMAIN s : MatchEnd(s, i) > 0}
    IN  IF starts = {} THEN <<>>
        ELSE LET i == CHOOSE a \in starts : \A b \in starts : a <= b
             IN  SubSeq(s, i, MatchEnd(s, i))

----------------------------------------------------------------------------
(* to_number_safe *)

NullWords == {<<"n", "a", "n">>, <<"n", "/", "a">>, <<"n", "a">>}

\* the comma read as a decimal point instead of being removed
to_number_safe_decimal_comma(v) ==
    IF v = None THEN None
    ELSE IF IsNumber(v) /\ v.t # "nan" THEN FloatOfNumber(v)
    ELSE LET s == Strip(PyStr(v)) IN
         IF s = <<>> \/ Lower(s) \in NullWords THEN None
         ELSE LET toks == Split([i \in DOMAIN s |-> IF s[i] = "," THEN "." ELSE s[i]]) IN
              IF PyFloatOk(toks[1]) THEN PyFloat(toks[1])
              ELSE LET m == RegexSearch(toks[1]) IN
                   IF m = <<>> THEN None ELSE PyFloat(m)

to_number_safe(v) ==
    IF v = None THEN None
    ELSE IF IsNumber(v) /\ v.t # "nan" THEN FloatOfNumber(v)
    ELSE LET s == Strip(PyStr(v)) IN
         IF s = <<>> \/ Lower(s) \in NullWords THEN None
         ELSE LET toks == Split(RemoveCommas(s)) IN
              IF toks = <<>> THEN Raise("IndexError")    \* s.split()[0] of an empty list
              ELSE IF PyFloatOk(toks[1]) THEN PyFloat(toks[1])
              ELSE LET m == RegexSearch(toks[1]) IN
                   IF m = <<>> THEN None
                   ELSE IF PyFloatOk(m) THEN PyFloat(m) ELSE None

----------------------------------------------------------------------------
(* normalize_unit *)

UNIT_MAP == <<
    [canon |-> <<"%">>,
     variants |-> << <<"%">>, <<"p", "e", "r", "c", "e", "n", "t">>,
                     <<"p", "e", "r", "c", "e", "n", "t", "a", "g", "e">> >>],
    [canon |-> <<"G", "W", "h">>,
     variants |-> << <<"g", "w", "h">>,
                     <<"g", "i", "g", "a", " ", "w", "a", "t", "t", " ", "h", "o", "u", "r">>,
                     <<"g", "w", "h", " ">> >>],
    [canon |-> <<"M", "W">>,
     variants |-> << <<"m", "w">>, <<"m", "e", "g", "a", "w", "a", "t", "t">> >>],
    [canon |-> <<"k", "W", "h", " ", "p", "e", "r", " ", "c", "a", "p", "i", "t", "a">>,
     variants |-> << <<"k", "w", "h", " ", "p", "e", "r", " ", "c", "a", "p", "i", "t", "a">>,
                     <<"k", "w", "h", "/", "c", "a", "p", "i", "t", "a">>,
                     <<"k", "w", "h", " ", "p", "e", "r", " ", "p", "e", "r", "s", "o", "n">> >>],
    [canon |-> <<"k", "t">>,
     variants |-> << <<"k", "t">>, <<"k", "i", "l", "o", "t", "o", "n", "n", "e", "s">>,
                     <<"k", "t", " ">> >>] >>

\* the table entries one of whose variants is a substring of s
UnitMatches(s) ==
    {i \in DOMAIN UNIT_MAP :
        \E j \in DOMAIN UNIT_MAP[i].variants : Contains(UNIT_MAP[i].variants[j], s)}

PercentWords == {<<"%">>, <<"p", "e", "r", "c", "e", "n", "t">>,
                 <<"p", "e", "r", "c", "e", "n", "t", "a", "g", "e">>}

\* the table looked up without lower-casing the text
normalize_unit_case_sensitive(v) ==
    IF ~Truthy(v) THEN None
    ELSE LET s == Strip(PyStr(v)) IN
         IF s = <<>> THEN None
         ELSE IF UnitMatches(s) # {}
         THEN Str(UNIT_MAP[CHOOSE i \in UnitMatches(s) : \A j \in UnitMatches(s) : i <= j].canon)
         ELSE Str(Strip(v.s))

normalize_unit(v) ==
    IF ~Truthy(v) THEN None
    ELSE LET s == Lower(Strip(PyStr(v))) IN
         IF s = <<>> THEN None
         ELSE IF UnitMatches(s) # {}
         THEN Str(UNIT_MAP[CHOOSE i \in UnitMatches(s) : \A j \in UnitMatches(s) : i <= j].canon)
         ELSE IF s \in PercentWords THEN Str(<<"%">>)
         ELSE IF v.t = "str" THEN Str(Strip(v.s))
         ELSE Raise("AttributeError")                    \* unit_raw.strip() of a number

----------------------------------------------------------------------------
(* Schema constants *)

YearFrom == 2000
YearTo   == 2025       \* range(2000, 2025): the last year is 2024

YearText(n) == <<Digits[((n \div 1000) % 10) + 1], Digits[((n \div 100) % 10) + 1],
                 Digits[((n \div 10) % 10) + 1], Digits[(n % 10) + 1]>>

YEARS == [i \in 1..(YearTo - YearFrom) |-> YearText(YearFrom + i - 1)]

T_country        == <<"c", "o", "u", "n", "t", "r", "y">>
T_country_serial == <<"c", "o", "u", "n", "t", "r", "y", "_", "s", "e", "r", "i", "a", "l">>
T_metric         == <<"m", "e", "t", "r", "i", "c">>
T_unit           == <<"u", "n", "i", "t">>
T_sector         == <<"s", "e", "c", "t", "o", "r">>
T_sub_sector     == <<"s", "u", "b", "_", "s", "e", "c", "t", "o", "r">>
T_sub_sub_sector == <<"s", "u", "b", "_", "s", "u", "b", "_", "s", "e", "c", "t", "o", "r">>
T_source_link    == <<"s", "o", "u", "r", "c", "e", "_", "l", "i", "n", "k">>
T_source         == <<"s", "o", "u", "r", "c", "e">>
T_None           == <<"N", "o", "n", "e">>
T_Portal         == <<"A", "f", "r", "i", "c", "a", " ", "E", "n", "e", "r", "g", "y", " ",
                      "P", "o", "r", "t", "a", "l">>

REQUIRED_SCHEMA ==
    <<T_country, T_country_serial, T_metric, T_unit, T_sector, T_sub_sector,
      T_sub_sub_sector, T_source_link, T_source>> \o YEARS

Range(s) == {s[i] : i \in DOMAIN s}

YearSet == Range(YEARS)

----------------------------------------------------------------------------
(* infer_country_serial.  hash() of a str is salted per process; the model *)
(* takes one fixed polynomial hash of the character codes in its place.    *)

Ord(c) ==
    IF IsDigit(c) THEN 48 + DigitVal(c)
    ELSE IF c \in DOMAIN LowerOf THEN 64 + (CHOOSE i \in DOMAIN UpperChars : UpperChars[i] = c)
    ELSE IF c \in DOMAIN UpperOf THEN 96 + (CHOOSE i \in DOMAIN LowerChars : LowerChars[i] = c)
    ELSE 32

RECURSIVE PyHash(_)
PyHash(s) == IF s = <<>> THEN 7 ELSE (31 * PyHash(SubSeq(s, 1, Len(s) - 1)) + Ord(s[Len(s)])) % 2147483647

infer_country_serial(country_name) ==
    IF ~Truthy(country_name) THEN None ELSE PyInt(PyHash(country_name.s) % 100000)

----------------------------------------------------------------------------
(* build_normalized_docs.  A raw batch df is [columns, rows]: the column   *)
(* names in order, no name twice, and one sequence of cells per row.       *)

\* row[c] for a column c of the batch
RowItem(df, row, c) == row[CHOOSE i \in DOMAIN df.columns : df.columns[i] = c]

\* c in row
InRow(df, c) == c \in Range(df.columns)

\* row.get(c)
RowGet(df, row, c) == IF InRow(df, c) THEN RowItem(df, row, c) ELSE None

\* lc_map.keys(): the lower-cased names in the order they first appear
RECURSIVE LcKeys(_)
LcKeys(cols) ==
    IF cols = <<>> THEN <<>>
    ELSE LET prev == LcKeys(SubSeq(cols, 1, Len(cols) - 1))
             k    == Lower(cols[Len(cols)])
         IN  IF k \in Range(prev) THEN prev ELSE Append(prev, k)

\* lc_map[k]: the last column whose lower-cased name is k
LcMap(cols, k) ==
    cols[CHOOSE i \in DOMAIN cols :
            /\ Lower(cols[i]) = k
            /\ \A j \in DOMAIN cols : Lower(cols[j]) = k => j <= i]

MetricWords == << <<"m", "e", "t", "r", "i", "c">>, <<"i", "n", "d", "i", "c", "a", "t", "o", "r">>,
                  <<"s", "e", "r", "i", "e", "s">>, <<"n", "a", "m", "e">>,
                  <<"v", "a", "r", "i", "a", "b", "l", "e">> >>

IsMetricName(k) == \E w \in DOMAIN MetricWords : Contains(MetricWords[w], k)

\* the candidates ranked by the keyword list, then by column order
metric_candidates_by_keyword(cols) ==
    LET ks == LcKeys(cols)
        RankOf(k) == CHOOSE w \in DOMAIN MetricWords :
                        /\ Contains(MetricWords[w], k)
                        /\ \A u \in DOMAIN MetricWords : Contains(MetricWords[u], k) => w <= u
        Pick[w \in 0..Len(MetricWords)] ==
            IF w = 0 THEN <<>>
            ELSE Pick[w - 1] \o SelectSeq(ks, LAMBDA k : IsMetricName(k) /\ RankOf(k) = w)
    IN  Pick[Len(MetricWords)]

metric_candidates(cols) == SelectSeq(LcKeys(cols), IsMetricName)

unit_candidates(cols) ==
    SelectSeq(LcKeys(cols), LAMBDA k : Contains(T_unit, k)
                                       \/ Contains(<<"m", "e", "a", "s", "u", "r", "e">>, k))

country_candidates(cols) == SelectSeq(LcKeys(cols), LAMBDA k : Contains(T_country, k))

has_year_cols(cols) == \E i \in DOMAIN cols : cols[i] \in YearSet

SkippedNames == {T_source, T_source_link, T_unit, T_country, T_country_serial}

\* str(v).strip() if v and v != "None" else None
Standardize(v) == IF Truthy(v) /\ v # Str(T_None) THEN Str(Strip(PyStr(v))) ELSE None

RowCountry(df, row) ==
    LET cc == country_candidates(df.columns)
        country == IF cc # <<>> THEN RowItem(df, row, LcMap(df.columns, cc[1]))
                   ELSE IF InRow(df, T_country) THEN RowGet(df, row, T_country) ELSE None
    IN  Standardize(country)

\* the fallback scan: the first eligible column with non-blank text, else the
\* last eligible column's cell, else the value the scan started with
MetricFallback(df, row, metric) ==
    LET cols == df.columns
        scan == {i \in DOMAIN cols : cols[i] \notin YearSet /\ Lower(cols[i]) \notin SkippedNames}
        good == {i \in scan : Truthy(row[i]) /\ Strip(PyStr(row[i])) # <<>>}
    IN  IF good # {} THEN row[CHOOSE i \in good : \A j \in good : i <= j]
        ELSE IF scan # {} THEN row[CHOOSE i \in scan : \A j \in scan : j <= i]
        ELSE metric

RowMetric(df, row) ==
    LET cols == df.columns
        mc == metric_candidates(cols)
        usable == {i \in DOMAIN mc : LcMap(cols, mc[i]) # <<>>}
        m0 == IF usable # {}
              THEN RowItem(df, row, LcMap(cols, mc[CHOOSE i \in usable : \A j \in usable : i <= j]))
              ELSE None
        m1 == IF ~Truthy(m0) /\ InRow(df, T_metric) THEN RowGet(df, row, T_metric) ELSE m0
        m2 == IF ~Truthy(m1) /\ Len(cols) > 0 THEN MetricFallback(df, row, m1) ELSE m1
    IN  Standardize(m2)

RowUnit(df, row) ==
    LET uc == unit_candidates(df.columns)
        unit_raw_ == IF uc # <<>> THEN RowItem(df, row, LcMap(df.columns, uc[1]))
                     ELSE IF InRow(df, T_unit) THEN RowGet(df, row, T_unit) ELSE None
    IN  normalize_unit(unit_raw_)

base(df, row) ==
    LET country == RowCountry(df, row) IN
       (T_country :> country)
    @@ (T_country_serial :> infer_country_serial(country))
    @@ (T_metric :> RowMetric(df, row))
    @@ (T_unit :> RowUnit(df, row))
    @@ (T_sector :> IF InRow(df, T_sector) THEN RowGet(df, row, T_sector) ELSE None)
    @@ (T_sub_sector :> IF InRow(df, T_sub_sector) THEN RowGet(df, row, T_sub_sector) ELSE None)
    @@ (T_sub_sub_sector :> IF InRow(df, T_sub_sub_sector)
                            THEN RowGet(df, row, T_sub_sub_sector) ELSE None)
    @@ (T_source_link :> RowGet(df, row, T_source_link))
    @@ (T_source :> IF InRow(df, T_source) THEN RowGet(df, row, T_source) ELSE Str(T_Portal))

\* the value of year y: the exact column, else the first column whose name has y in it
YearValue(df, row, y) ==
    LET cols == df.columns
        nested == {i \in DOMAIN cols : Contains(y, cols[i])}
    IN  IF y \in Range(cols) THEN to_number_safe(RowGet(df, row, y))
        ELSE IF nested # {} THEN to_number_safe(row[CHOOSE i \in nested : \A j \in nested : i <= j])
        ELSE None

\* the years are filled only for the columns the batch has
year_values_of_present_columns(df, row) ==
    LET ys == {y \in YearSet : \E i \in DOMAIN df.columns : Contains(y, df.columns[i])}
    IN  [y \in ys |-> YearValue(df, row, y)]

year_values(df, row) ==
    IF has_year_cols(df.columns) THEN [y \in YearSet |-> YearValue(df, row, y)]
    ELSE [y \in YearSet |-> None]

\* one pass of the loop over the rows: the document and whether it is kept,
\* or the exception the pass raises
RowDoc(df, row) ==
    LET doc == year_values(df, row) @@ base(df, row)
        bad == {k \in DOMAIN doc : doc[k].t = "raise"}
    IN  IF bad # {} THEN doc[CHOOSE k \in bad : TRUE]
        ELSE [t |-> "doc", doc |-> doc,
              keep |-> IF Truthy(doc[T_metric]) THEN Strip(doc[T_metric].s) # <<>> ELSE FALSE]

\* the loop over the rows from row i on, docs being the list built so far;
\* r is the outcome of the pass over row i
RECURSIVE RowLoop(_, _, _)
RowStep(df, i, docs, r) ==
    IF r.t = "raise" THEN r
    ELSE RowLoop(df, i + 1, IF r.keep THEN Append(docs, r.doc) ELSE docs)

RowLoop(df, i, docs) ==
    IF i > Len(df.rows) THEN [t |-> "docs", docs |-> docs]
    ELSE RowStep(df, i, docs, RowDoc(df, df.rows[i]))

build_normalized_docs(df) == RowLoop(df, 1, <<>>)

----------------------------------------------------------------------------
(* upsert_normalized_docs over the final collection.  The collection is    *)
(* the sequence of its documents in natural (insertion) order; a replace   *)
(* keeps the place of the document it replaces.                            *)

\* for k in REQUIRED_SCHEMA: d.setdefault(k, None)
EnsureSchema(d) == d @@ [k \in Range(REQUIRED_SCHEMA) |-> None]

\* the match key of the ReplaceOne of d
match_key(d) ==
    IF Truthy(d[T_country])
    THEN (T_country :> d[T_country]) @@ (T_metric :> d[T_metric])
    ELSE (T_metric :> d[T_metric]) @@ (T_source_link :> d[T_source_link])

\* a stored document matches an equality filter
Matches(doc, filter) == \A k \in DOMAIN filter : doc[k] = filter[k]

\* ReplaceOne(key, d, upsert=True) on the collection st with the counts c:
\* the first match is replaced in place, a replacement equal to the stored
\* document being matched but not modified; with no match d is inserted
ReplaceOne(st, c, key, d) ==
    LET hits == {i \in DOMAIN st : Matches(st[i], key)}
    IN  IF hits = {}
        THEN [store |-> Append(st, d), upserted |-> c.upserted + 1, modified |-> c.modified]
        ELSE LET i == CHOOSE a \in hits : \A b \in hits : a <= b
             IN  [store |-> [st EXCEPT ![i] = d], upserted |-> c.upserted,
                  modified |-> IF st[i] = d THEN c.modified ELSE c.modified + 1]

\* coll.bulk_write(ops, ordered=False): the operations run one after another
\* in the order the server takes them, order[k] being the k-th to run; an
\* operation of the set failed has no effect and stops no other
RECURSIVE BulkWrite(_, _, _, _, _)
BulkWrite(acc, ops, order, failed, k) ==
    IF k > Len(order) THEN acc
    ELSE LET n == order[k]
         IN  BulkWrite(IF n \in failed THEN acc
                       ELSE ReplaceOne(acc.store, acc, match_key(ops[n]), ops[n]),
                       ops, order, failed, k + 1)

\* the outcome of upsert_normalized_docs(coll, docs): the collection after it
\* and what the call returns or raises
upsert_normalized_docs(coll, docs, order, failed) ==
    LET ops == [n \in DOMAIN docs |-> EnsureSchema(docs[n])]
        w   == BulkWrite([store |-> coll, upserted |-> 0, modified |-> 0], ops, order, failed, 1)
    IN  IF ops = <<>> THEN [store |-> coll, res |-> [t |-> "counts", upserted |-> 0, modified |-> 0]]
        ELSE IF failed # {} THEN [store |-> w.store, res |-> Raise("BulkWriteError")]
        ELSE [store |-> w.store,
              res |-> [t |-> "counts", upserted |-> w.upserted, modified |-> w.modified]]

----------------------------------------------------------------------------
(* validate_collection.  docs is list(coll.find({})): the documents of the *)
(* collection in natural order.                                            *)

\* d.get(k)
DocGet(d, k) == IF k \in DOMAIN d THEN d[k] ELSE None

\* [y for y in YEARS if d.get(y) is None]
MissingOf(d) == SelectSeq(YEARS, LAMBDA y : DocGet(d, y) = None)

\* f"{d.get('country')}||{d.get('metric')}"
ReportKey(d) == PyStr(DocGet(d, T_country)) \o <<"|", "|">> \o PyStr(DocGet(d, T_metric))

\* the dict missing_years after the loop: a later document with the same key
\* text takes the place of an earlier one
missing_years(docs) ==
    LET idx == {i \in DOMAIN docs : MissingOf(docs[i]) # <<>>}
    IN  [k \in {ReportKey(docs[i]) : i \in idx} |->
            MissingOf(docs[CHOOSE i \in idx :
                              /\ ReportKey(docs[i]) = k
                              /\ \A j \in idx : ReportKey(docs[j]) = k => j <= i])]

\* the units seen per metric, for the metrics with more than one
inconsistent_units(docs) ==
    LET units(m) == {DocGet(docs[i], T_unit) : i \in {j \in DOMAIN docs :
                        DocGet(docs[j], T_metric) = m /\ Truthy(DocGet(docs[j], T_unit))}}
        ms == {DocGet(docs[i], T_metric) : i \in DOMAIN docs}
    IN  [m \in {n \in ms : Cardinality(units(n)) > 1} |-> units(m)]

\* coll.distinct("country") without the empty ones
countries(docs) == {c \in {DocGet(docs[i], T_country) : i \in DOMAIN docs} : Truthy(c)}

\* count_documents({y: {"$ne": None}}) for each year; the percentage is
\* this count over total_documents
completeness_by_year(docs) ==
    [y \in YearSet |-> Cardinality({i \in DOMAIN docs : DocGet(docs[i], y) # None})]

validate_collection(docs) ==
    IF docs = <<>> THEN [t |-> "error"]
    ELSE [t |-> "report",
          total_documents |-> Len(docs),
          missing_years |-> missing_years(docs),
          inconsistent_units |-> inconsistent_units(docs),
          countries |-> countries(docs),
          completeness_by_year |-> completeness_by_year(docs)]

----------------------------------------------------------------------------
(* Values of the variables a specification does not use *)

IdleNum   == num_in = None /\ num_out = Pending
IdleUnit  == unit_variant = <<>> /\ unit_raw = None /\ unit_out = Pending
IdleNorm  == df_raw = [columns |-> <<>>, rows |-> <<>>] /\ out = Pending
IdleStore == store = <<>> /\ last = Pending /\ repeat = FALSE /\ ncalls = 0 /\ report = Pending

\* every text of at most n characters of the set chars
Texts(chars, n) == UNION {[1..k -> chars] : k \in 0..n}

----------------------------------------------------------------------------
(* SpecNum: to_number_safe applied to each argument of NumInputs *)

NumChars == {"1", "5", ",", ".", " ", "-", "a"}

NumExamples == {
    None, NaN, PyInt(7), PyInt(0), Float(15, 1),
    Str(<<"N", "/", "A">>), Str(<<"a", "b", "c">>), Str(<<"n", "a", "n">>),
    Str(<<"3", "2", ".", "1">>), Str(<<"3", "5", ",", "0", " ", "(", "p", ")">>),
    Str(<<"1", "2", ",", "3", "4", "5", " ", "(", "e", "s", "t", ")">>),
    Str(<<"~", "4", "2", "%">>), Str(<<"x", "-", "1", ".", "5">>) }

NumInputs == NumExamples \cup {Str(s) : s \in Texts(NumChars, MaxLen)}

InitNum == num_in \in NumInputs /\ num_out = Pending /\ IdleUnit /\ IdleNorm /\ IdleStore

ToNumberSafe ==
    /\ num_out = Pending
    /\ num_out' = to_number_safe(num_in)
    /\ UNCHANGED <<num_in, unitVars, normVars, storeVars>>

NextNum == ToNumberSafe
SpecNum == InitNum /\ [][NextNum]_vars

----------------------------------------------------------------------------
(* SpecUnit: normalize_unit applied to every table variant in several      *)
(* letter cases and paddings, and to free text                             *)

Blanks(n) == [i \in 1..n |-> " "]

CaseModes == {"lower", "upper", "title", "mixed"}

Recase(mode, s) ==
    CASE mode = "lower" -> s
      [] mode = "upper" -> Upper(s)
      [] mode = "title" -> [i \in DOMAIN s |-> IF i = 1 THEN UpperChar(s[i]) ELSE s[i]]
      [] mode = "mixed" -> [i \in DOMAIN s |-> IF i % 2 = 0 THEN UpperChar(s[i]) ELSE s[i]]

UnitChars == {"k", "T", "m", "W", " "}

FreeUnits == {None, Str(<<"U", "S", "D">>), Str(<<"u", "s", "d", " ", "m", "i", "l", "l", "i", "o", "n">>),
              Str(<<" ", "P", "J", " ">>), Str(<<"T", "W", "h">>)}
             \cup {Str(s) : s \in Texts(UnitChars, MaxLen)}

InitUnit ==
    /\ \/ \E i \in DOMAIN UNIT_MAP : \E j \in DOMAIN UNIT_MAP[i].variants :
          \E mode \in CaseModes : \E lp \in 0..MaxPad : \E rp \in 0..MaxPad :
            /\ unit_variant = UNIT_MAP[i].variants[j]
            /\ unit_raw = Str(Blanks(lp) \o Recase(mode, UNIT_MAP[i].variants[j]) \o Blanks(rp))
       \/ unit_variant = <<>> /\ unit_raw \in FreeUnits
    /\ unit_out = Pending
    /\ IdleNum /\ IdleNorm /\ IdleStore

NormalizeUnit ==
    /\ unit_out = Pending
    /\ unit_out' = normalize_unit(unit_raw)
    /\ UNCHANGED <<unit_variant, unit_raw, numVars, normVars, storeVars>>

NextUnit == NormalizeUnit
SpecUnit == InitUnit /\ [][NextUnit]_vars

----------------------------------------------------------------------------
(* SpecNorm: build_normalized_docs applied to every batch of at most       *)
(* MaxCols columns of ColPool and MaxRows rows of cells of CellPool, and   *)
(* to the batches of NormExamples                                          *)

C_Name      == <<"N", "a", "m", "e">>
C_NAME      == <<"N", "A", "M", "E">>
C_Indicator == <<"I", "n", "d", "i", "c", "a", "t", "o", "r">>
C_Item      == <<"I", "t", "e", "m">>
C_Country   == <<"C", "o", "u", "n", "t", "r", "y">>
C_Unit      == <<"U", "n", "i", "t">>
C_2001GWh   == <<"2", "0", "0", "1", " ", "(", "G", "W", "h", ")">>

ColPool == {C_Name, C_NAME, C_Indicator, C_Item, T_metric, YearText(2000)}

V_x1    == <<" ", "x", "1", " ">>
V_Kenya == <<"K", "e", "n", "y", "a">>
V_Elec  == <<"E", "l", "e", "c", "t", "r", "i", "c", "i", "t", "y", " ",
             "A", "c", "c", "e", "s", "s">>

CellPool == {Str(<<>>), Str(V_x1), Str(<<",">>)}

KenyaBatch ==
    [columns |-> <<C_Country, C_Indicator, C_Unit, YearText(2000), YearText(2001)>>,
     rows |-> << <<Str(V_Kenya), Str(V_Elec), Str(<<"%">>), Str(<<"3", "2", ".", "1">>),
                   Str(<<"3", "5", ",", "0", " ", "(", "p", ")">>)>> >>]

NormExamples == {
    KenyaBatch,
    \* rows without a usable metric between rows with one
    [columns |-> <<C_Name, T_source_link, T_sector>>,
     rows |-> << <<None, Str(<<"u", "1">>), Str(<<"P", "o", "w", "e", "r">>)>>,
                 <<Str(T_None), None, None>>,
                 <<Str(<<"G", "D", "P">>), None, Str(<<>>)>>,
                 <<Str(<<" ", " ">>), Str(<<"u", "2">>), None>> >>],
    \* an empty cell in the first candidate column, and a column named metric
    [columns |-> <<C_Name, T_metric, C_Country>>,
     rows |-> << <<Str(<<>>), Str(<<"G", "D", "P">>), Str(V_Kenya)>>,
                 <<Str(V_x1), Str(<<"G", "D", "P">>), Str(<<" ">>)>> >>],
    \* a year in an annotated header
    [columns |-> <<C_Item, YearText(2000), C_2001GWh, C_Unit>>,
     rows |-> << <<Str(V_Elec), Str(<<"N", "/", "A">>), Str(<<"1", ",", "2", "0", "0">>),
                   Str(<<" ", "G", "W", "H", " ">>)>>,
                 <<Str(<<>>), Str(<<"7">>), Str(<<",">>), Str(<<>>)>> >>] }

MaxCols == 2
MaxRows == 1

InitNorm ==
    /\ \/ \E k \in 1..MaxCols : \E r \in 1..MaxRows :
          \E cols \in [1..k -> ColPool] : \E rows \in [1..r -> [1..k -> CellPool]] :
            /\ \A i, j \in 1..k : cols[i] = cols[j] => i = j
            /\ df_raw = [columns |-> cols, rows |-> rows]
       \/ df_raw \in NormExamples
    /\ out = Pending
    /\ IdleNum /\ IdleUnit /\ IdleStore

BuildNormalizedDocs ==
    /\ out = Pending
    /\ out' = build_normalized_docs(df_raw)
    /\ UNCHANGED <<df_raw, numVars, unitVars, storeVars>>

NextNorm == BuildNormalizedDocs
SpecNorm == InitNorm /\ [][NextNorm]_vars

----------------------------------------------------------------------------
(* Spec: the final collection under successive upsert_normalized_docs      *)
(* calls, each with a batch of at most MaxBatch documents of DocPool       *)

V_GDP == <<"G", "D", "P">>
V_u1  == <<"u", "1">>

\* a document as a caller passes it: the key country is left out when unset
MkDoc(country, metric, link, v2000) ==
    (IF country = None THEN <<>> ELSE (T_country :> country))
    @@ (T_metric :> metric) @@ (T_source_link :> link) @@ (YearText(2000) :> v2000)

\* a document with a value for every year
FullDoc == [y \in YearSet |-> Float(1, 0)] @@ MkDoc(None, Str(V_GDP), None, Float(1, 0))

DocPool == {MkDoc(c, Str(V_GDP), s, v) :
                c \in {None, Str(V_Kenya)}, s \in {None, Str(V_u1)}, v \in {None, Float(1, 0)}}
           \cup {FullDoc}

MaxBatch == 2
MaxCalls == 2

\* the orders in which the server may take n operations
Orders(n) == {o \in [1..n -> 1..n] : \A i, j \in 1..n : o[i] = o[j] => i = j}

Init == IdleStore /\ IdleNum /\ IdleUnit /\ IdleNorm

Upsert ==
    /\ ncalls < MaxCalls
    /\ ncalls' = ncalls + 1
    /\ \E n \in 0..MaxBatch : \E docs \in [1..n -> DocPool] :
         \E order \in Orders(n) : \E failed \in SUBSET (1..n) :
           LET r == upsert_normalized_docs(store, docs, order, failed) IN
           /\ store' = r.store
           /\ last' = [t |-> "call", docs |-> docs, failed |-> failed, pre |-> store, res |-> r.res]
           /\ repeat' = IF last = Pending THEN FALSE
                        ELSE last.docs = docs /\ last.failed = {} /\ failed = {}
    /\ report' = Pending
    /\ UNCHANGED <<numVars, unitVars, normVars>>

\* main after an upsert that returned: the report over the final collection
Validate ==
    /\ last # Pending
    /\ last.res.t = "counts"
    /\ report = Pending
    /\ report' = validate_collection(store)
    /\ UNCHANGED <<store, last, repeat, ncalls, numVars, unitVars, normVars>>

Next == Upsert \/ Validate
Spec == Init /\ [][Next]_vars

----------------------------------------------------------------------------
(* Claims about to_number_safe and normalize_unit *)

NumDone == num_out # Pending

\* C6: to_number_safe never raises: every argument (absent, number, any
\* text, also text of commas only) gives a float or absent; "N/A", "" and
\* absent give absent, "abc" gives absent, "12,345 (est)" gives 12345.0.
C6_NeverRaises ==
    NumDone =>
        /\ num_out.t \in {"None", "float", "nan", "inf"}
        /\ num_in \in {None, Str(<<>>), Str(<<"N", "/", "A">>), Str(<<"a", "b", "c">>)}
              => num_out = None
        /\ num_in = Str(<<"1", "2", ",", "3", "4", "5", " ", "(", "e", "s", "t", ")">>)
              => num_out = Float(12345, 0)

UnitDone == unit_out # Pending

\* C8: normalize_unit gives, for every variant of UNIT_MAP in any letter
\* case and with blanks around it, the canonical unit whose list has that
\* variant, the first entry in table order when several match by substring;
\* for text that matches no variant, that text trimmed; for absent or empty
\* text, absent; and it never raises.
C8_NormalizeUnit ==
    UnitDone =>
        /\ unit_out.t # "raise"
        /\ unit_variant # <<>> =>
              \E i \in DOMAIN UNIT_MAP :
                  /\ \E j \in DOMAIN UNIT_MAP[i].variants : UNIT_MAP[i].variants[j] = unit_variant
                  /\ unit_out = Str(UNIT_MAP[i].canon)
        /\ unit_raw \in {None, Str(<<>>)} => unit_out = None
        /\ unit_raw.t = "str" /\ Strip(unit_raw.s) # <<>> =>
              LET s == Lower(Strip(unit_raw.s))
                  hits == {i \in DOMAIN UNIT_MAP :
                              \E j \in DOMAIN UNIT_MAP[i].variants :
                                  Contains(UNIT_MAP[i].variants[j], s)}
              IN  /\ hits = {} => unit_out = Str(Strip(unit_raw.s))
                  /\ hits # {} => \E i \in hits : /\ \A k \in hits : i <= k
                                                  /\ unit_out = Str(UNIT_MAP[i].canon)

\* C8 witness: an upper-case, padded variant was mapped to its canonical unit
C8_Witness ==
    /\ unit_raw = Str(<<" ", "M", "E", "G", "A", "W", "A", "T", "T", " ">>)
    /\ unit_out = Str(<<"M", "W">>)

----------------------------------------------------------------------------
(* Claims about build_normalized_docs *)

NormDone == out # Pending
NormOk   == out.t = "docs"

Cols == df_raw.columns
Rows == df_raw.rows

IsText(v)     == v.t = "str"
NonBlank(v)   == IF IsText(v) THEN Strip(v.s) # <<>> ELSE FALSE

\* the rows, in order, whose predicate holds
RowsWhere(P(_)) == SelectSeq([i \in DOMAIN Rows |-> i], P)

\* C3: build_normalized_docs emits no document whose metric is absent,
\* empty or blank, and a row that yields no usable metric is dropped
\* without raising and without changing the documents of the other rows.
C3_NoEmptyMetric ==
    NormDone =>
        /\ NormOk => \A n \in DOMAIN out.docs : NonBlank(out.docs[n][T_metric])
        /\ (\E i \in DOMAIN Rows : ~NonBlank(RowMetric(df_raw, Rows[i]))) =>
              /\ NormOk
              /\ LET kept == RowsWhere(LAMBDA i : NonBlank(RowMetric(df_raw, Rows[i])))
                 IN  /\ Len(out.docs) = Len(kept)
                     /\ \A n \in DOMAIN kept :
                           <<out.docs[n]>> =
                               build_normalized_docs([columns |-> Cols, rows |-> <<Rows[kept[n]]>>]).docs

\* C4: every emitted document has exactly the keys of REQUIRED_SCHEMA,
\* whatever the columns of the batch, and the fields the batch gives no
\* value for are explicit nulls.
C4_ExactKeySet ==
    NormDone /\ NormOk =>
        \A n \in DOMAIN out.docs :
            LET doc == out.docs[n] IN
            /\ DOMAIN doc = Range(REQUIRED_SCHEMA)
            /\ Cardinality(DOMAIN doc) = Len(REQUIRED_SCHEMA)
            /\ \A k \in {T_sector, T_sub_sector, T_sub_sub_sector, T_source_link} :
                  k \notin Range(Cols) => doc[k] = None
            /\ (\A i \in DOMAIN Cols : ~Contains(T_country, Lower(Cols[i]))) =>
                  doc[T_country] = None /\ doc[T_country_serial] = None
            /\ \A i \in DOMAIN YEARS :
                  (\A c \in DOMAIN Cols : ~Contains(YEARS[i], Cols[c])) => doc[YEARS[i]] = None

\* C4 witness: a document was emitted for a batch that has no schema column
C4_Witness ==
    /\ NormDone /\ NormOk
    /\ Cols = <<C_Item>>
    /\ Len(out.docs) = 1

KenyaDocHas(doc, v2001) ==
    /\ doc[T_country] = Str(V_Kenya)
    /\ doc[T_metric] = Str(V_Elec)
    /\ doc[T_unit] = Str(<<"%">>)
    /\ doc[YearText(2000)] = Float(321, 1)
    /\ doc[YearText(2001)] = v2001
    /\ \A i \in DOMAIN YEARS : YEARS[i] \notin {YearText(2000), YearText(2001)} => doc[YEARS[i]] = None

\* in a wide-form batch that kept every row, each year with a column of
\* exactly that name has the coerced value of that cell, and each year that
\* no column name contains is null
WideFormYears ==
    NormOk /\ has_year_cols(Cols) /\ Len(out.docs) = Len(Rows) =>
        \A n \in DOMAIN Rows : \A i \in DOMAIN YEARS :
            /\ YEARS[i] \in Range(Cols) =>
                  out.docs[n][YEARS[i]] = to_number_safe(RowGet(df_raw, Rows[n], YEARS[i]))
            /\ (\A c \in DOMAIN Cols : ~Contains(YEARS[i], Cols[c])) => out.docs[n][YEARS[i]] = None

\* C5 as stated: the Kenya batch gives one document with 2000 = 32.1 and
\* 2001 = 35.0 and every other year null.
C5_KenyaAsStated ==
    NormDone =>
        /\ df_raw = KenyaBatch =>
              NormOk /\ Len(out.docs) = 1 /\ KenyaDocHas(out.docs[1], Float(35, 0))
        /\ WideFormYears

\* C5 amended: the Kenya batch gives one document with country "Kenya",
\* metric "Electricity Access", unit "%", 2000 = 32.1, 2001 = 350.0 (the
\* comma of "35,0 (p)" is removed as a thousands separator) and every other
\* year null; in general each year with a column of exactly that name has
\* the coerced value of that cell and a year no column name contains is null.
C5_KenyaExample ==
    NormDone =>
        /\ df_raw = KenyaBatch =>
              NormOk /\ Len(out.docs) = 1 /\ KenyaDocHas(out.docs[1], Float(350, 0))
        /\ WideFormYears

\* C5 witness: the Kenya batch was normalized into one document
C5_Witness ==
    /\ df_raw = KenyaBatch
    /\ NormDone /\ NormOk
    /\ Len(out.docs) = 1

\* the columns whose lower-cased name contains a metric keyword
HeuristicCols == {i \in DOMAIN Cols : IsMetricName(Lower(Cols[i]))}

\* the last column with the same name, up to letter case, as column i
LastNamedLike(i) ==
    CHOOSE j \in DOMAIN Cols :
        /\ Lower(Cols[j]) = Lower(Cols[i])
        /\ \A k \in DOMAIN Cols : Lower(Cols[k]) = Lower(Cols[i]) => k <= j

\* the column the keyword priority metric > indicator > series > name >
\* variable selects, column order breaking ties within one keyword
PriorityCol ==
    LET w == CHOOSE a \in DOMAIN MetricWords :
                 /\ \E i \in DOMAIN Cols : Contains(MetricWords[a], Lower(Cols[i]))
                 /\ \A b \in DOMAIN MetricWords :
                       (\E i \in DOMAIN Cols : Contains(MetricWords[b], Lower(Cols[i]))) => a <= b
        hits == {i \in DOMAIN Cols : Contains(MetricWords[w], Lower(Cols[i]))}
    IN  CHOOSE i \in hits : \A j \in hits : i <= j

\* the first heuristic column in column order, or the last column that has
\* its name in another letter case
RawOrderCol ==
    LastNamedLike(CHOOSE i \in HeuristicCols : \A j \in HeuristicCols : i <= j)

\* the metric of every emitted document is the trimmed cell of column c, for
\* a batch in which that cell is non-empty in every row
MetricFromCol(c) ==
    (\A i \in DOMAIN Rows : Truthy(Rows[i][c])) =>
        LET kept == RowsWhere(LAMBDA i : Rows[i][c] # Str(T_None) /\ NonBlank(Rows[i][c]))
        IN  /\ Len(out.docs) = Len(kept)
            /\ \A n \in DOMAIN kept : out.docs[n][T_metric] = Str(Strip(Rows[kept[n]][c].s))

\* C10 as stated: among several columns that satisfy the metric-name
\* heuristic the metric comes from the column the keyword priority selects.
C10_KeywordPriority ==
    /\ NormDone /\ NormOk /\ Cardinality(HeuristicCols) >= 2
    /\ \A i, j \in DOMAIN Cols : Lower(Cols[i]) = Lower(Cols[j]) => i = j
    => MetricFromCol(PriorityCol)

\* C10 amended: among several columns that satisfy the metric-name
\* heuristic the metric comes from the first of them in raw column order
\* (from the last column with that name in another letter case, if any),
\* whenever its cell is non-empty; the keyword list sets no priority.
C10_RawColumnOrder ==
    NormDone /\ NormOk /\ Cardinality(HeuristicCols) >= 2 => MetricFromCol(RawOrderCol)

\* C10 witness: with columns Name, Indicator the metric came from Name
C10_Witness ==
    /\ NormDone /\ NormOk
    /\ Cols = <<C_Name, C_Indicator>>
    /\ Rows = << <<Str(V_x1), Str(<<",">>)>> >>
    /\ Len(out.docs) = 1
    /\ out.docs[1][T_metric] = Str(<<"x", "1">>)

----------------------------------------------------------------------------
(* Claims about upsert_normalized_docs *)

\* the natural key of a document: (country, metric) when the country is
\* present, else (metric, source_link)
NaturalKey(d) ==
    IF Truthy(d[T_country]) THEN <<"country", d[T_country], d[T_metric]>>
    ELSE <<"link", d[T_metric], d[T_source_link]>>

Called == last # Pending

\* the documents of the last call as they were written
LastOps == [n \in DOMAIN last.docs |-> EnsureSchema(last.docs[n])]

\* the operations of the last call that did not fail
LastApplied == DOMAIN last.docs \ last.failed

\* C1: no two stored documents have the same natural key.
C1_UniqueNaturalKey ==
    \A i, j \in DOMAIN store : NaturalKey(store[i]) = NaturalKey(store[j]) => i = j

\* C2: an upsert leaves every stored document unchanged whose natural key
\* differs from the natural keys of the documents upserted.
C2_OtherKeysUnchanged ==
    Called =>
        \A i \in DOMAIN last.pre :
            (\A n \in LastApplied : NaturalKey(LastOps[n]) # NaturalKey(last.pre[i])) =>
                i \in DOMAIN store /\ store[i] = last.pre[i]

\* C7: when one item of a batch fails in the store, the other items are
\* applied and upsert_normalized_docs returns the counts of those that
\* succeeded.
C7_PartialSuccessTolerated ==
    Called /\ Len(last.docs) >= 2 /\ Cardinality(last.failed) = 1 =>
        /\ \A n \in LastApplied :
              (\A m \in LastApplied \ {n} : ~Matches(LastOps[n], match_key(LastOps[m]))) =>
                  \E i \in DOMAIN store : store[i] = LastOps[n]
        /\ last.res.t = "counts"
        /\ last.res.upserted + last.res.modified <= Cardinality(LastApplied)

\* C9: the first upsert of a document into a store that has no document of
\* its natural key reports it as upserted; upserting the same document again
\* in the next call leaves the store as it was, with exactly one document of
\* that key, and reports nothing upserted.
C9_Idempotent ==
    Called /\ Len(last.docs) = 1 /\ last.failed = {} =>
        LET d == LastOps[1] IN
        /\ (\A i \in DOMAIN last.pre : NaturalKey(last.pre[i]) # NaturalKey(d)) =>
              last.res.upserted = 1
        /\ repeat =>
              /\ store = last.pre
              /\ Cardinality({i \in DOMAIN store : NaturalKey(store[i]) = NaturalKey(d)}) = 1
              /\ last.res.upserted = 0

----------------------------------------------------------------------------
(* Claims about validate_collection *)

Reported == report # Pending /\ report.t = "report"

\* the null years of a stored document, ascending
NullYears(d) == SelectSeq(YEARS, LAMBDA y : d[y] = None)

\* the text "<country>||<metric>" of a stored document
Label(d) == PyStr(d[T_country]) \o <<"|", "|">> \o PyStr(d[T_metric])

\* C11: for a non-empty store, missing_years has for each stored document
\* with a null year an entry under "<country>||<metric>" that is exactly
\* that document's null years in ascending order, and no entry for a
\* document with no null year, also when several documents are stored.
C11_MissingYears ==
    Reported =>
        \A i \in DOMAIN store :
            IF NullYears(store[i]) # <<>>
            THEN /\ Label(store[i]) \in DOMAIN report.missing_years
                 /\ report.missing_years[Label(store[i])] = NullYears(store[i])
            ELSE Label(store[i]) \notin DOMAIN report.missing_years

\* C11 restricted to stores in which no two documents have the same
\* "<country>||<metric>" text: there the report is as stated.
C11_DistinctLabels ==
    (Reported /\ \A i, j \in DOMAIN store : Label(store[i]) = Label(store[j]) => i = j)
        => \A i \in DOMAIN store :
               IF NullYears(store[i]) # <<>>
               THEN /\ Label(store[i]) \in DOMAIN report.missing_years
                    /\ report.missing_years[Label(store[i])] = NullYears(store[i])
               ELSE Label(store[i]) \notin DOMAIN report.missing_years

====
